---- MODULE Spec2Model ----
(***************************************************************************)
(* Model of pulumi/containers/ecs_service.py: the ECSService assembler.    *)
(*                                                                         *)
(* The program is a straight-line sequence of resource declarations, one   *)
(* action per constructor call, plus the provisioning engine's asynchronous*)
(* resolution of the three outputs joined by pulumi.Output.all(...) and    *)
(* the apply callback that renders the container definitions with         *)
(* json.dumps.  Python strings are TLA+ strings; str.replace, str(int) and *)
(* json.dumps are computed character by character.                         *)
(***************************************************************************)
EXTENDS Integers, Sequences, FiniteSets, TLC

\* ------------------------------------------------------------------------
\* Bounds of the model
\* ------------------------------------------------------------------------
MaxNameLen == 2
MaxRuns == 2

\* ------------------------------------------------------------------------
\* Python string primitives
\* ------------------------------------------------------------------------
Ch(s, i) == SubSeq(s, i, i)

\* str.replace(old, new) for a one-character old
RECURSIVE ReplaceIn(_, _, _, _)
ReplaceIn(s, i, old, new) ==
    IF i > Len(s) THEN ""
    ELSE (IF Ch(s, i) = old THEN new ELSE Ch(s, i)) \o ReplaceIn(s, i + 1, old, new)

Replace(s, old, new) == ReplaceIn(s, 1, old, new)

Digit(d) == Ch("0123456789", d + 1)

RECURSIVE StrNat(_)
StrNat(n) == IF n < 10 THEN Digit(n) ELSE StrNat(n \div 10) \o Digit(n % 10)

\* str(int)
Str(n) == IF n < 0 THEN "-" \o StrNat(0 - n) ELSE StrNat(n)

\* ------------------------------------------------------------------------
\* Python values handed to json.dumps, tagged by their Python type.
\* A dict is its insertion-ordered sequence of <<key, value>> items.
\* ------------------------------------------------------------------------
PyStr(s) == [py |-> "str", v |-> s]
PyInt(n) == [py |-> "int", v |-> n]
PyBool(b) == [py |-> "bool", v |-> b]
PyList(items) == [py |-> "list", v |-> items]
PyDict(items) == [py |-> "dict", v |-> items]

\* ------------------------------------------------------------------------
\* json.dumps with the default separators (", " and ": ")
\* ------------------------------------------------------------------------
Quote == "\""
Backslash == "\\"

RECURSIVE EscapeFrom(_, _)
EscapeFrom(s, i) ==
    IF i > Len(s) THEN ""
    ELSE (IF Ch(s, i) = Quote \/ Ch(s, i) = Backslash
          THEN Backslash \o Ch(s, i)
          ELSE Ch(s, i)) \o EscapeFrom(s, i + 1)

Escape(s) == EscapeFrom(s, 1)

JsonStr(s) == Quote \o Escape(s) \o Quote

RECURSIVE JsonDumps(_)
RECURSIVE DumpItems(_, _)
RECURSIVE DumpMembers(_, _)
\* the items of a list from index i on, separated by ", "
DumpItems(items, i) ==
    IF i > Len(items) THEN ""
    ELSE JsonDumps(items[i])
         \o (IF i = Len(items) THEN "" ELSE ", " \o DumpItems(items, i + 1))

\* the items of a dict from index i on, as "key": value separated by ", "
DumpMembers(items, i) ==
    IF i > Len(items) THEN ""
    ELSE JsonStr(items[i][1]) \o ": " \o JsonDumps(items[i][2])
         \o (IF i = Len(items) THEN "" ELSE ", " \o DumpMembers(items, i + 1))

DumpValue(x) ==
    CASE x.py = "str" -> JsonStr(x.v)
      [] x.py = "int" -> Str(x.v)
      [] x.py = "bool" -> (IF x.v THEN "true" ELSE "false")
      [] x.py = "list" -> "[" \o DumpItems(x.v, 1) \o "]"
      [] x.py = "dict" -> "{" \o DumpMembers(x.v, 1) \o "}"

\* the argument is evaluated once, then dispatched on its Python type
JsonDumps(x) == CHOOSE out \in {DumpValue(y) : y \in {x}} : TRUE

\* ------------------------------------------------------------------------
\* json.loads, the reader of the rendered document (the ECS API side):
\* recursive descent returning the value and the position after it.
\* ------------------------------------------------------------------------
RECURSIVE SkipWs(_, _)
SkipWs(s, i) == IF i <= Len(s) /\ Ch(s, i) = " " THEN SkipWs(s, i + 1) ELSE i

RECURSIVE ScanString(_, _, _)
ScanString(s, i, acc) ==
    IF Ch(s, i) = Quote THEN [v |-> PyStr(acc), i |-> i + 1]
    ELSE IF Ch(s, i) = Backslash THEN ScanString(s, i + 2, acc \o Ch(s, i + 1))
    ELSE ScanString(s, i + 1, acc \o Ch(s, i))

IsDigit(c) == \E d \in 0..9 : Digit(d) = c

DigitVal(c) == CHOOSE d \in 0..9 : Digit(d) = c

RECURSIVE ScanNat(_, _, _)
ScanNat(s, i, acc) ==
    IF i <= Len(s) /\ IsDigit(Ch(s, i))
    THEN ScanNat(s, i + 1, 10 * acc + DigitVal(Ch(s, i)))
    ELSE [v |-> acc, i |-> i]

ScanNumber(s, i) ==
    IF Ch(s, i) = "-"
    THEN LET r == ScanNat(s, i + 1, 0) IN [v |-> PyInt(0 - r.v), i |-> r.i]
    ELSE LET r == ScanNat(s, i, 0) IN [v |-> PyInt(r.v), i |-> r.i]

RECURSIVE ParseValue(_, _)
RECURSIVE ParseItems(_, _, _)
RECURSIVE ParseMembers(_, _, _)
\* after the list item r: a comma and the next item, or the closing bracket
AfterItem(s, r, acc) ==
    LET j == SkipWs(s, r.i)
    IN  IF Ch(s, j) = ","
        THEN ParseItems(s, j + 1, Append(acc, r.v))
        ELSE [v |-> PyList(Append(acc, r.v)), i |-> j + 1]

ParseItems(s, i, acc) ==
    CHOOSE out \in {AfterItem(s, r, acc) : r \in {ParseValue(s, SkipWs(s, i))}} : TRUE

\* after the dict value r of key k: a comma and the next member, or the brace
AfterMember(s, k, r, acc) ==
    LET j == SkipWs(s, r.i)
    IN  IF Ch(s, j) = ","
        THEN ParseMembers(s, j + 1, Append(acc, <<k.v.v, r.v>>))
        ELSE [v |-> PyDict(Append(acc, <<k.v.v, r.v>>)), i |-> j + 1]

\* after the key k: the colon and the value
AfterKey(s, k, acc) ==
    CHOOSE out \in {AfterMember(s, k, r, acc) :
                       r \in {ParseValue(s, SkipWs(s, SkipWs(s, k.i) + 1))}} : TRUE

ParseMembers(s, i, acc) ==
    CHOOSE out \in {AfterKey(s, k, acc) :
                       k \in {ScanString(s, SkipWs(s, i) + 1, "")}} : TRUE

ParseValue(s, i) ==
    CASE Ch(s, i) = Quote -> ScanString(s, i + 1, "")
      [] Ch(s, i) = "[" ->
            (IF Ch(s, SkipWs(s, i + 1)) = "]"
             THEN [v |-> PyList(<<>>), i |-> SkipWs(s, i + 1) + 1]
             ELSE ParseItems(s, i + 1, <<>>))
      [] Ch(s, i) = "{" ->
            (IF Ch(s, SkipWs(s, i + 1)) = "}"
             THEN [v |-> PyDict(<<>>), i |-> SkipWs(s, i + 1) + 1]
             ELSE ParseMembers(s, i + 1, <<>>))
      [] Ch(s, i) = "t" -> [v |-> PyBool(TRUE), i |-> i + 4]
      [] Ch(s, i) = "f" -> [v |-> PyBool(FALSE), i |-> i + 5]
      [] OTHER -> ScanNumber(s, i)

JsonLoads(s) == ParseValue(s, SkipWs(s, 1)).v

\* dict[key] on a parsed or built dict
ItemOf(items, key) ==
    items[CHOOSE n \in 1..Len(items) : items[n][1] = key][2]

DictGet(d, key) == CHOOSE out \in {ItemOf(x.v, key) : x \in {d}} : TRUE

\* ------------------------------------------------------------------------
\* Inputs: DjangoServiceCfg, the external collaborators' outputs
\* ------------------------------------------------------------------------
Alphabet == {"w", "_"}

RECURSIVE NamesOfLen(_)
NamesOfLen(n) ==
    IF n = 0 THEN {""}
    ELSE {s \o c : s \in NamesOfLen(n - 1), c \in Alphabet}

ServiceNames == UNION {NamesOfLen(n) : n \in 1..MaxNameLen}

LbPorts == {0, 8080}

ContainerPorts == {-1, 8000}

LimitPairs == {<<256, 512>>, <<256, 100>>}

Configs ==
    {[service_name |-> n, django_project |-> "proj",
      backend_cfg |-> [lb_port |-> lp, container_port |-> cp,
                       cpu |-> lim[1], memory |-> lim[2], desired_count |-> 1]] :
        n \in ServiceNames, lp \in LbPorts, cp \in ContainerPorts, lim \in LimitPairs}

ImageUris == {"ecr/w:0.0.1", "ecr/w@sha"}

Hosts == {"db1.rds", "db2.rds"}

\* ------------------------------------------------------------------------
\* State
\* ------------------------------------------------------------------------
VARIABLES
    cfg,        \* self.django_srv_cfg
    pc,         \* index of the next statement of create_resources
    declared,   \* logical name -> arguments of the resources declared so far
    order,      \* logical names in the order the constructors were called
    self,       \* self.ecs_sg, self.django_tg, self.db
    locals,     \* local variables of create_networking / create_ecs_service
    outputs,    \* the three pulumi Outputs joined by Output.all
    doc,        \* value of container_definitions_template once the apply ran
    run,        \* number of the current program run
    prev        \* resource graph and rendered document of the previous run

vars == <<cfg, pc, declared, order, self, locals, outputs, doc, run, prev>>

None == ""

NoSpec == ""

EmptyGraph == [n \in {} |-> n]

\* a reference to an output attribute of a resource of this program
Ref(name, attr) == [kind |-> "res", name |-> name, attr |-> attr]

\* an identifier supplied by an external collaborator
Ext(name, attr) == [kind |-> "ext", name |-> name, attr |-> attr]

Unknown == [known |-> FALSE, value |-> ""]

Known(v) == [known |-> TRUE, value |-> v]

OutputNames == {"image_uri", "log_group_name", "host"}

\* ------------------------------------------------------------------------
\* create_resources: the statements in program order
\* ------------------------------------------------------------------------
CreateNetworkingBody == <<"lb_sg", "ecs_sg", "django_lb", "django_tg", "listener">>

CreateDbBody == <<"db">>

CreateEcsServiceBody ==
    <<"repository", "image", "log_group", "cluster", "template",
      "task_definition", "service">>

CreateResourcesSwapped == CreateDbBody \o CreateNetworkingBody \o CreateEcsServiceBody

CreateResources == CreateNetworkingBody \o CreateDbBody \o CreateEcsServiceBody

Done == Len(CreateResources) + 1

At(stmt) == pc < Done /\ CreateResources[pc] = stmt

Declare(name, args) ==
    /\ declared' = declared @@ (name :> args)
    /\ order' = Append(order, name)

\* ------------------------------------------------------------------------
\* Resource arguments, as written at each constructor call
\* ------------------------------------------------------------------------
AllEgress ==
    [from_port |-> 0, to_port |-> 0, protocol |-> "-1",
     cidr_blocks |-> <<"0.0.0.0/0">>]

LbSgArgs(SERVICE_NAME, LB_PORT) ==
    [type |-> "ec2.SecurityGroup",
     name |-> SERVICE_NAME \o "-lb-sg",
     description |-> "Controls access to the ALB",
     vpc_id |-> Ext("networking", "vpc_id"),
     ingress |-> <<[from_port |-> LB_PORT, to_port |-> LB_PORT, protocol |-> "tcp",
                    cidr_blocks |-> <<"0.0.0.0/0">>, security_groups |-> <<>>]>>,
     egress |-> <<AllEgress>>,
     tags |-> [Name |-> SERVICE_NAME \o "-lb-sg"]]

EcsSgArgsOpen(SERVICE_NAME, lb_sg) ==
    [type |-> "ec2.SecurityGroup",
     name |-> SERVICE_NAME \o "-ecs-sg",
     description |-> "Controls access to the ECS Service",
     vpc_id |-> Ext("networking", "vpc_id"),
     ingress |-> <<[from_port |-> 0, to_port |-> 0, protocol |-> "-1",
                    cidr_blocks |-> <<"0.0.0.0/0">>, security_groups |-> <<>>]>>,
     egress |-> <<AllEgress>>,
     tags |-> [Name |-> SERVICE_NAME \o "-ecs-sg"]]

EcsSgArgs(SERVICE_NAME, lb_sg) ==
    [type |-> "ec2.SecurityGroup",
     name |-> SERVICE_NAME \o "-ecs-sg",
     description |-> "Controls access to the ECS Service",
     vpc_id |-> Ext("networking", "vpc_id"),
     ingress |-> <<[from_port |-> 0, to_port |-> 0, protocol |-> "-1",
                    cidr_blocks |-> <<>>, security_groups |-> <<Ref(lb_sg, "id")>>]>>,
     egress |-> <<AllEgress>>,
     tags |-> [Name |-> SERVICE_NAME \o "-ecs-sg"]]

LoadBalancerArgs(SERVICE_NAME, lb_sg) ==
    [type |-> "lb.LoadBalancer",
     name |-> SERVICE_NAME \o "-lb",
     load_balancer_type |-> "application",
     internal |-> FALSE,
     security_groups |-> <<Ref(lb_sg, "id")>>,
     subnets |-> <<Ext("networking", "subnet_ids.PUBLIC")>>]

TargetGroupArgs(SERVICE_NAME, LB_PORT) ==
    [type |-> "lb.TargetGroup",
     name |-> SERVICE_NAME \o "-service-tg",
     port |-> LB_PORT,
     protocol |-> "HTTP",
     vpc_id |-> Ext("networking", "vpc_id"),
     target_type |-> "ip",
     health_check |-> [path |-> "/ping/", port |-> "traffic-port",
                       healthy_threshold |-> 5, unhealthy_threshold |-> 2,
                       timeout |-> 2, interval |-> 5, matcher |-> "200"]]

ListenerArgsFixedPort(LB_PORT, django_lb, django_tg) ==
    [type |-> "lb.Listener",
     load_balancer_arn |-> Ref(django_lb, "arn"),
     port |-> 80,
     default_actions |-> <<[type |-> "forward",
                            target_group_arn |-> Ref(django_tg, "arn")]>>]

ListenerArgs(LB_PORT, django_lb, django_tg) ==
    [type |-> "lb.Listener",
     load_balancer_arn |-> Ref(django_lb, "arn"),
     port |-> LB_PORT,
     default_actions |-> <<[type |-> "forward",
                            target_group_arn |-> Ref(django_tg, "arn")]>>]

LogGroupArgs(SERVICE_NAME) ==
    [type |-> "cloudwatch.LogGroup",
     name |-> "/ecs/" \o SERVICE_NAME,
     retention_in_days |-> 30]

ClusterArgsPerRun(SERVICE_NAME) ==
    [type |-> "ecs.Cluster", name |-> SERVICE_NAME \o "-cluster-" \o Str(run)]

ClusterArgs(SERVICE_NAME) ==
    [type |-> "ecs.Cluster", name |-> SERVICE_NAME \o "-cluster"]

\* the list handed to json.dumps by the apply callback
ContainerDefinitionsHyphenated(SERVICE_NAME, CONT_PORT, args) ==
    PyList(<<PyDict(<<
        <<"name", PyStr(SERVICE_NAME)>>,
        <<"image", PyStr(args["image_uri"])>>,
        <<"essential", PyBool(TRUE)>>,
        <<"cpu", PyInt(10)>>,
        <<"memory", PyInt(512)>>,
        <<"portMappings", PyList(<<PyDict(<<
            <<"containerPort", PyInt(CONT_PORT)>>,
            <<"protocol", PyStr("tcp")>> >>)>>)>>,
        <<"command", PyList(<<PyStr(Replace(SERVICE_NAME, "_", "-")),
                              PyStr(Str(CONT_PORT))>>)>>,
        <<"environment", PyList(<<
            PyDict(<< <<"name", PyStr("ENVIRONMENT")>>, <<"value", PyStr("PROD")>> >>),
            PyDict(<< <<"name", PyStr("DB_HOST")>>,
                      <<"value", PyStr(args["host"])>> >>)>>)>>,
        <<"logConfiguration", PyDict(<<
            <<"logDriver", PyStr("awslogs")>>,
            <<"options", PyDict(<<
                <<"awslogs-group", PyStr(args["log_group_name"])>>,
                <<"awslogs-region", PyStr("eu-west-1")>>,
                <<"awslogs-stream-prefix",
                  PyStr(SERVICE_NAME \o "-log-stream")>> >>)>> >>)>>
    >>)>>)

ContainerDefinitions(SERVICE_NAME, CONT_PORT, args) ==
    PyList(<<PyDict(<<
        <<"name", PyStr(SERVICE_NAME)>>,
        <<"image", PyStr(args["image_uri"])>>,
        <<"essential", PyBool(TRUE)>>,
        <<"cpu", PyInt(10)>>,
        <<"memory", PyInt(512)>>,
        <<"portMappings", PyList(<<PyDict(<<
            <<"containerPort", PyInt(CONT_PORT)>>,
            <<"protocol", PyStr("tcp")>> >>)>>)>>,
        <<"command", PyList(<<PyStr(SERVICE_NAME), PyStr(Str(CONT_PORT))>>)>>,
        <<"environment", PyList(<<
            PyDict(<< <<"name", PyStr("ENVIRONMENT")>>, <<"value", PyStr("PROD")>> >>),
            PyDict(<< <<"name", PyStr("DB_HOST")>>,
                      <<"value", PyStr(args["host"])>> >>)>>)>>,
        <<"logConfiguration", PyDict(<<
            <<"logDriver", PyStr("awslogs")>>,
            <<"options", PyDict(<<
                <<"awslogs-group", PyStr(args["log_group_name"])>>,
                <<"awslogs-region", PyStr("eu-west-1")>>,
                <<"awslogs-stream-prefix",
                  PyStr(SERVICE_NAME \o "-log-stream")>> >>)>> >>)>>
    >>)>>)

\* the keyword arguments of pulumi.Output.all: the outputs the apply waits for
JoinArgsWithoutHost(django_log_group) ==
    [image_uri |-> Ext("image", "image_uri"),
     log_group_name |-> Ref(django_log_group, "name")]

JoinArgsWithoutLogGroup(django_log_group) ==
    [image_uri |-> Ext("image", "image_uri"),
     host |-> Ext("db", "host")]

JoinArgs(django_log_group) ==
    [image_uri |-> Ext("image", "image_uri"),
     log_group_name |-> Ref(django_log_group, "name"),
     host |-> Ext("db", "host")]

NoTemplate == [registered |-> FALSE, inputs |-> EmptyGraph]

TaskDefinitionArgs(SERVICE_NAME, backend_cfg, container_definitions_template) ==
    [type |-> "ecs.TaskDefinition",
     family |-> SERVICE_NAME,
     network_mode |-> "awsvpc",
     requires_compatibilities |-> <<"FARGATE">>,
     cpu |-> backend_cfg.cpu,
     memory |-> backend_cfg.memory,
     execution_role_arn |-> Ext("roles", "ecs_execution_role.arn"),
     task_role_arn |-> Ext("roles", "ecs_task_role.arn"),
     container_definitions |-> container_definitions_template.inputs]

ServiceArgsByName(SERVICE_NAME, backend_cfg, ecs_cluster, ecs_task_definition, ecs_sg, django_tg) ==
    [type |-> "ecs.Service",
     name |-> SERVICE_NAME \o "-service",
     cluster |-> Ref(ecs_cluster, "id"),
     task_definition |-> Ref(ecs_task_definition, "arn"),
     launch_type |-> "FARGATE",
     desired_count |-> backend_cfg.desired_count,
     network_configuration |->
        [subnets |-> <<Ext("networking", "subnet_ids.PRIVATE")>>,
         security_groups |-> <<Ref(ecs_sg, "id")>>,
         assign_public_ip |-> TRUE],
     load_balancers |-> <<[target_group_arn |-> Ref(SERVICE_NAME \o "-service-tg", "arn"),
                           container_name |-> SERVICE_NAME,
                           container_port |-> backend_cfg.container_port]>>]

ServiceArgsHyphenated(SERVICE_NAME, backend_cfg, ecs_cluster, ecs_task_definition, ecs_sg, django_tg) ==
    [type |-> "ecs.Service",
     name |-> SERVICE_NAME \o "-service",
     cluster |-> Ref(ecs_cluster, "id"),
     task_definition |-> Ref(ecs_task_definition, "arn"),
     launch_type |-> "FARGATE",
     desired_count |-> backend_cfg.desired_count,
     network_configuration |->
        [subnets |-> <<Ext("networking", "subnet_ids.PRIVATE")>>,
         security_groups |-> <<Ref(ecs_sg, "id")>>,
         assign_public_ip |-> TRUE],
     load_balancers |-> <<[target_group_arn |-> Ref(django_tg, "arn"),
                           container_name |-> Replace(SERVICE_NAME, "_", "-"),
                           container_port |-> backend_cfg.container_port]>>]

ServiceArgs(SERVICE_NAME, backend_cfg, ecs_cluster, ecs_task_definition, ecs_sg, django_tg) ==
    [type |-> "ecs.Service",
     name |-> SERVICE_NAME \o "-service",
     cluster |-> Ref(ecs_cluster, "id"),
     task_definition |-> Ref(ecs_task_definition, "arn"),
     launch_type |-> "FARGATE",
     desired_count |-> backend_cfg.desired_count,
     network_configuration |->
        [subnets |-> <<Ext("networking", "subnet_ids.PRIVATE")>>,
         security_groups |-> <<Ref(ecs_sg, "id")>>,
         assign_public_ip |-> TRUE],
     load_balancers |-> <<[target_group_arn |-> Ref(django_tg, "arn"),
                           container_name |-> SERVICE_NAME,
                           container_port |-> backend_cfg.container_port]>>]

\* ------------------------------------------------------------------------
\* Initial state: ECSService.__init__ has stored its arguments
\* ------------------------------------------------------------------------
NoDb == [created |-> FALSE, ecs_sg |-> None]

NoSelf == [ecs_sg |-> None, django_tg |-> None, db |-> NoDb]

NoLocals ==
    [lb_sg |-> None, django_lb |-> None, repository |-> None, image |-> None,
     image_uri |-> None, django_log_group |-> None, ecs_cluster |-> None,
     container_definitions_template |-> NoTemplate, ecs_task_definition |-> None]

NoOutputs == [o \in OutputNames |-> Unknown]

NoPrev == [graph |-> EmptyGraph, doc |-> NoSpec]

Init ==
    /\ cfg \in Configs
    /\ pc = 1
    /\ declared = EmptyGraph
    /\ order = <<>>
    /\ self = NoSelf
    /\ locals = NoLocals
    /\ outputs = NoOutputs
    /\ doc = NoSpec
    /\ run = 1
    /\ prev = NoPrev

\* SERVICE_NAME of create_networking
NetworkingName == Replace(cfg.service_name, "_", "-")

Advance == pc' = pc + 1

\* ------------------------------------------------------------------------
\* create_networking
\* ------------------------------------------------------------------------
DeclareLbSg ==
    /\ At("lb_sg")
    /\ Declare(NetworkingName \o "-lb-sg",
               LbSgArgs(NetworkingName, cfg.backend_cfg.lb_port))
    /\ locals' = [locals EXCEPT !.lb_sg = NetworkingName \o "-lb-sg"]
    /\ Advance
    /\ UNCHANGED <<cfg, self, outputs, doc, run, prev>>

DeclareEcsSg ==
    /\ At("ecs_sg")
    /\ Declare(NetworkingName \o "-sg", EcsSgArgs(NetworkingName, locals.lb_sg))
    /\ self' = [self EXCEPT !.ecs_sg = NetworkingName \o "-sg"]
    /\ Advance
    /\ UNCHANGED <<cfg, locals, outputs, doc, run, prev>>

DeclareLoadBalancer ==
    /\ At("django_lb")
    /\ Declare(NetworkingName \o "-lb", LoadBalancerArgs(NetworkingName, locals.lb_sg))
    /\ locals' = [locals EXCEPT !.django_lb = NetworkingName \o "-lb"]
    /\ Advance
    /\ UNCHANGED <<cfg, self, outputs, doc, run, prev>>

DeclareTargetGroup ==
    /\ At("django_tg")
    /\ Declare(NetworkingName \o "-service-tg",
               TargetGroupArgs(NetworkingName, cfg.backend_cfg.lb_port))
    /\ self' = [self EXCEPT !.django_tg = NetworkingName \o "-service-tg"]
    /\ Advance
    /\ UNCHANGED <<cfg, locals, outputs, doc, run, prev>>

DeclareListener ==
    /\ At("listener")
    /\ Declare(NetworkingName \o "-lb-listener",
               ListenerArgs(cfg.backend_cfg.lb_port, locals.django_lb, self.django_tg))
    /\ Advance
    /\ UNCHANGED <<cfg, self, locals, outputs, doc, run, prev>>

\* ------------------------------------------------------------------------
\* create_db: the service security group is handed to the RDS collaborator
\* ------------------------------------------------------------------------
CreateDb ==
    /\ At("db")
    /\ self' = [self EXCEPT !.db = [created |-> TRUE, ecs_sg |-> self.ecs_sg]]
    /\ Advance
    /\ UNCHANGED <<cfg, declared, order, locals, outputs, doc, run, prev>>

\* ------------------------------------------------------------------------
\* create_ecs_service
\* ------------------------------------------------------------------------
CreateRepository ==
    /\ At("repository")
    /\ locals' = [locals EXCEPT !.repository = cfg.service_name \o "-repository"]
    /\ Advance
    /\ UNCHANGED <<cfg, declared, order, self, outputs, doc, run, prev>>

\* Image(...) and image.push_image("0.0.1")
PushImage ==
    /\ At("image")
    /\ locals' = [locals EXCEPT !.image = cfg.service_name,
                                !.image_uri = "image_uri"]
    /\ Advance
    /\ UNCHANGED <<cfg, declared, order, self, outputs, doc, run, prev>>

DeclareLogGroup ==
    /\ At("log_group")
    /\ Declare(cfg.service_name \o "-log-group", LogGroupArgs(cfg.service_name))
    /\ locals' = [locals EXCEPT !.django_log_group = cfg.service_name \o "-log-group"]
    /\ Advance
    /\ UNCHANGED <<cfg, self, outputs, doc, run, prev>>

DeclareCluster ==
    /\ At("cluster")
    /\ Declare(cfg.service_name \o "-cluster", ClusterArgs(cfg.service_name))
    /\ locals' = [locals EXCEPT !.ecs_cluster = cfg.service_name \o "-cluster"]
    /\ Advance
    /\ UNCHANGED <<cfg, self, outputs, doc, run, prev>>

\* pulumi.Output.all(...).apply(lambda ...): registers the callback only
RegisterTemplate ==
    /\ At("template")
    /\ locals' = [locals EXCEPT !.container_definitions_template =
                     [registered |-> TRUE,
                      inputs |-> JoinArgs(locals.django_log_group)]]
    /\ Advance
    /\ UNCHANGED <<cfg, declared, order, self, outputs, doc, run, prev>>

DeclareTaskDefinition ==
    /\ At("task_definition")
    /\ Declare(cfg.service_name \o "-tf",
               TaskDefinitionArgs(cfg.service_name, cfg.backend_cfg,
                                  locals.container_definitions_template))
    /\ locals' = [locals EXCEPT !.ecs_task_definition = cfg.service_name \o "-tf"]
    /\ Advance
    /\ UNCHANGED <<cfg, self, outputs, doc, run, prev>>

DeclareService ==
    /\ At("service")
    /\ Declare(cfg.service_name \o "-service",
               ServiceArgs(cfg.service_name, cfg.backend_cfg, locals.ecs_cluster,
                           locals.ecs_task_definition, self.ecs_sg, self.django_tg))
    /\ Advance
    /\ UNCHANGED <<cfg, self, locals, outputs, doc, run, prev>>

\* ------------------------------------------------------------------------
\* The provisioning engine: outputs resolve in any order once their
\* producer exists; the apply callback runs when all its inputs are known
\* ------------------------------------------------------------------------
ResolveImageUri ==
    /\ locals.image_uri # None
    /\ ~outputs["image_uri"].known
    /\ \E uri \in ImageUris :
          outputs' = [outputs EXCEPT !["image_uri"] = Known(uri)]
    /\ UNCHANGED <<cfg, pc, declared, order, self, locals, doc, run, prev>>

ResolveLogGroupName ==
    /\ locals.django_log_group # None
    /\ ~outputs["log_group_name"].known
    /\ outputs' = [outputs EXCEPT !["log_group_name"] =
                      Known(declared[locals.django_log_group].name)]
    /\ UNCHANGED <<cfg, pc, declared, order, self, locals, doc, run, prev>>

ResolveHost ==
    /\ self.db.created
    /\ ~outputs["host"].known
    /\ \E h \in Hosts :
          outputs' = [outputs EXCEPT !["host"] = Known(h)]
    /\ UNCHANGED <<cfg, pc, declared, order, self, locals, doc, run, prev>>

JoinReady ==
    /\ locals.container_definitions_template.registered
    /\ \A k \in DOMAIN locals.container_definitions_template.inputs :
          outputs[k].known

\* the lambda of lines 155-190
RunApply ==
    /\ JoinReady
    /\ doc = NoSpec
    /\ doc' = JsonDumps(ContainerDefinitions(
                  cfg.service_name, cfg.backend_cfg.container_port,
                  [k \in OutputNames |-> outputs[k].value]))
    /\ UNCHANGED <<cfg, pc, declared, order, self, locals, outputs, run, prev>>

\* the assembler is run again with the same configuration
RunAgain ==
    /\ pc = Done
    /\ doc # NoSpec
    /\ run < MaxRuns
    /\ run' = run + 1
    /\ prev' = [graph |-> declared, doc |-> doc]
    /\ pc' = 1
    /\ declared' = EmptyGraph
    /\ order' = <<>>
    /\ self' = NoSelf
    /\ locals' = NoLocals
    /\ outputs' = NoOutputs
    /\ doc' = NoSpec
    /\ UNCHANGED cfg

ProgramStep ==
    \/ DeclareLbSg
    \/ DeclareEcsSg
    \/ DeclareLoadBalancer
    \/ DeclareTargetGroup
    \/ DeclareListener
    \/ CreateDb
    \/ CreateRepository
    \/ PushImage
    \/ DeclareLogGroup
    \/ DeclareCluster
    \/ RegisterTemplate
    \/ DeclareTaskDefinition
    \/ DeclareService

Next ==
    \/ ProgramStep
    \/ ResolveImageUri
    \/ ResolveLogGroupName
    \/ ResolveHost
    \/ RunApply
    \/ RunAgain

Spec == Init /\ [][Next]_vars

\* the Python program runs to completion and the engine runs a callback
\* whose inputs are all known
FairSpec == Spec /\ WF_vars(ProgramStep) /\ WF_vars(RunApply)

\* ------------------------------------------------------------------------
\* Reading the rendered document
\* ------------------------------------------------------------------------
Rendered == doc # NoSpec

Entries == JsonLoads(doc).v

Entry == Entries[1]

TypeOK ==
    /\ cfg \in Configs
    /\ pc \in 1..Done
    /\ run \in 1..MaxRuns
    /\ Rendered => JsonLoads(doc) =
            ContainerDefinitions(cfg.service_name, cfg.backend_cfg.container_port,
                                 [k \in OutputNames |-> outputs[k].value])

\* ------------------------------------------------------------------------
\* Reading the resource graph
\* ------------------------------------------------------------------------
Range(f) == {f[x] : x \in DOMAIN f}

OfType(t) == {n \in DOMAIN declared : declared[n].type = t}

\* every identifier the arguments of a declared resource refer to
RefsOf(r) ==
    CASE r.type = "ec2.SecurityGroup" ->
            {r.vpc_id} \cup UNION {Range(rule.security_groups) : rule \in Range(r.ingress)}
      [] r.type = "lb.LoadBalancer" -> Range(r.security_groups) \cup Range(r.subnets)
      [] r.type = "lb.TargetGroup" -> {r.vpc_id}
      [] r.type = "lb.Listener" ->
            {r.load_balancer_arn} \cup {a.target_group_arn : a \in Range(r.default_actions)}
      [] r.type = "ecs.TaskDefinition" ->
            {r.execution_role_arn, r.task_role_arn} \cup Range(r.container_definitions)
      [] r.type = "ecs.Service" ->
            {r.cluster, r.task_definition}
            \cup Range(r.network_configuration.subnets)
            \cup Range(r.network_configuration.security_groups)
            \cup {b.target_group_arn : b \in Range(r.load_balancers)}
      [] OTHER -> {}

\* identifiers supplied by the collaborators (networking, roles, RDS, image)
ExternalIds ==
    {Ext("networking", "vpc_id"), Ext("networking", "subnet_ids.PUBLIC"),
     Ext("networking", "subnet_ids.PRIVATE"),
     Ext("roles", "ecs_execution_role.arn"), Ext("roles", "ecs_task_role.arn"),
     Ext("db", "host"), Ext("image", "image_uri")}

Resolvable(ref, graph) ==
    IF ref.kind = "res" THEN ref.name \in DOMAIN graph ELSE ref \in ExternalIds

ImageResolved == outputs["image_uri"].known

LogGroupResolved == outputs["log_group_name"].known

HostResolved == outputs["host"].known

JoinRegistered == locals.container_definitions_template.registered

HasUnderscore == cfg.service_name # NetworkingName

\* ------------------------------------------------------------------------
\* C1: the container spec is never finalized while the image reference or
\* the data-store host is unresolved: a rendered spec exists only in states
\* where both have resolved, whatever the order of resolution.
\* ------------------------------------------------------------------------
C1_SpecOnlyAfterBoth == Rendered => (ImageResolved /\ HostResolved)

\* the join is registered, the image (and the log group name) resolved, the
\* host not yet: no spec
C1_Witness ==
    /\ JoinRegistered
    /\ ImageResolved
    /\ LogGroupResolved
    /\ ~HostResolved
    /\ ~Rendered

\* ------------------------------------------------------------------------
\* C2: after create_resources completes, every identifier a declared
\* resource refers to belongs to a resource declared in the same assembly or
\* is an identifier supplied by an external collaborator.
\* ------------------------------------------------------------------------
C2_NoDanglingReference ==
    pc = Done =>
        /\ \A n \in DOMAIN declared :
              \A ref \in RefsOf(declared[n]) : Resolvable(ref, declared)
        /\ self.db.created
        /\ self.db.ecs_sg \in DOMAIN declared

C2_Witness ==
    /\ pc = Done
    /\ HasUnderscore
    /\ Cardinality(DOMAIN declared) = 9
    /\ ~Rendered

\* ------------------------------------------------------------------------
\* C3: a malformed configuration (non-positive lb_port or container_port, or
\* a cpu/memory pair outside the allowed pairs) ends in a validation error
\* with no resource declared.
\* ------------------------------------------------------------------------
AllowedLimitPairs ==
    {<<256, 512>>, <<256, 1024>>, <<256, 2048>>,
     <<512, 1024>>, <<512, 2048>>, <<512, 3072>>, <<512, 4096>>}

Malformed(c) ==
    \/ c.backend_cfg.lb_port <= 0
    \/ c.backend_cfg.container_port <= 0
    \/ <<c.backend_cfg.cpu, c.backend_cfg.memory>> \notin AllowedLimitPairs

C3_MalformedDeclaresNothing == Malformed(cfg) => DOMAIN declared = {}

\* ------------------------------------------------------------------------
\* C4: the service security group has exactly one ingress rule, that rule
\* names the load-balancer security group of the same assembly, and no
\* ingress rule names a CIDR block.
\* ------------------------------------------------------------------------
C4_SoleIngressIsLbSg ==
    self.ecs_sg # None =>
        LET sg == declared[self.ecs_sg]
            lbSg == NetworkingName \o "-lb-sg"
        IN  /\ sg.type = "ec2.SecurityGroup"
            /\ Len(sg.ingress) = 1
            /\ sg.ingress[1].security_groups = <<Ref(lbSg, "id")>>
            /\ \A i \in 1..Len(sg.ingress) : sg.ingress[i].cidr_blocks = <<>>
            /\ lbSg \in OfType("ec2.SecurityGroup")
            /\ declared[lbSg].name = NetworkingName \o "-lb-sg"
            /\ \A b \in OfType("lb.LoadBalancer") :
                  declared[b].security_groups = sg.ingress[1].security_groups

C4_Witness ==
    /\ self.ecs_sg # None
    /\ OfType("lb.LoadBalancer") # {}
    /\ HasUnderscore
    /\ cfg.backend_cfg.lb_port = 8080

\* ------------------------------------------------------------------------
\* C5: the listener listens on lb_port on the load balancer of the same
\* assembly, its single default action forwards to the target group of the
\* same assembly, no other target group exists, and the ECS service is bound
\* to that same target group.
\* ------------------------------------------------------------------------
C5_ListenerForwardsToOwnTargetGroup ==
    /\ \A l \in OfType("lb.Listener") :
        LET lis == declared[l] IN
          /\ lis.port = cfg.backend_cfg.lb_port
          /\ lis.load_balancer_arn.attr = "arn"
          /\ lis.load_balancer_arn.name \in OfType("lb.LoadBalancer")
          /\ Len(lis.default_actions) = 1
          /\ lis.default_actions[1].type = "forward"
          /\ lis.default_actions[1].target_group_arn.attr = "arn"
          /\ OfType("lb.TargetGroup") = {lis.default_actions[1].target_group_arn.name}
          /\ \A s \in OfType("ecs.Service") :
                /\ Len(declared[s].load_balancers) = 1
                /\ declared[s].load_balancers[1].target_group_arn =
                       lis.default_actions[1].target_group_arn
    /\ pc = Done => Cardinality(OfType("lb.Listener")) = 1

C5_Witness ==
    /\ pc = Done
    /\ cfg.backend_cfg.lb_port = 8080
    /\ OfType("lb.Listener") # {}
    /\ OfType("ecs.Service") # {}

\* ------------------------------------------------------------------------
\* C6: the rendered container definition list contains exactly one entry,
\* whose command is the two-element list [service_name, str(container_port)].
\* ------------------------------------------------------------------------
C6_OneEntryWithCommand ==
    Rendered =>
        \A parsed \in {JsonLoads(doc)} :
            /\ parsed.py = "list"
            /\ Len(parsed.v) = 1
            /\ parsed.v[1].py = "dict"
            /\ \A command \in {DictGet(parsed.v[1], "command")} :
                  /\ command = PyList(<<PyStr(cfg.service_name),
                                        PyStr(Str(cfg.backend_cfg.container_port))>>)
                  /\ ScanNumber(command.v[2].v, 1).v.v = cfg.backend_cfg.container_port

C6_Witness ==
    /\ Rendered
    /\ HasUnderscore
    /\ cfg.backend_cfg.container_port = 8000
    /\ Len(DictGet(Entry, "command").v) = 2

\* ------------------------------------------------------------------------
\* C7: running the assembler twice with the same configuration declares the
\* same graph: same logical names, same argument values, same reference
\* edges, whatever the provider resolved in either run.
\* ------------------------------------------------------------------------
C7_SecondRunSameGraph == (run > 1 /\ pc = Done) => declared = prev.graph

\* a completed second run whose provider-assigned values differ from the first
C7_Witness ==
    /\ run = 2
    /\ pc = Done
    /\ Rendered
    /\ doc # prev.doc
    /\ Cardinality(DOMAIN prev.graph) = 9

\* ------------------------------------------------------------------------
\* C8: within one assembly, a step never removes or changes an already
\* declared resource, never declares a logical name twice, and everything a
\* newly declared resource (or the hand-off to the RDS collaborator) refers
\* to in this assembly has been declared before that step.
\* ------------------------------------------------------------------------
DeclaredInOrderOnce ==
    run' = run =>
        /\ \A n \in DOMAIN declared :
              n \in DOMAIN declared' /\ declared'[n] = declared[n]
        /\ \A n \in DOMAIN declared' \ DOMAIN declared :
              \A ref \in RefsOf(declared'[n]) :
                  ref.kind = "res" => ref.name \in DOMAIN declared
        /\ Len(order') > Len(order) =>
              /\ order' = Append(order, order'[Len(order')])
              /\ order'[Len(order')] \notin Range(order)
              /\ DOMAIN declared' = DOMAIN declared \cup {order'[Len(order')]}
        /\ Len(order') >= Len(order)
        /\ (self'.db.created /\ ~self.db.created) =>
              self'.db.ecs_sg \in DOMAIN declared

C8_DependencyOrderOnce == [][DeclaredInOrderOnce]_vars

C8_Witness ==
    /\ pc = Done
    /\ self.db.created
    /\ self.db.ecs_sg = self.ecs_sg
    /\ Len(order) = 9
    /\ Cardinality(Range(order)) = 9

\* ------------------------------------------------------------------------
\* C9: the ECS service's load-balancer binding names the container of the
\* rendered spec: container_name is the entry's name and container_port is
\* the containerPort of the entry's single port mapping.
\* ------------------------------------------------------------------------
C9_BindingNamesRenderedContainer ==
    Rendered =>
        \A s \in OfType("ecs.Service"), entries \in {Entries} :
            LET binding == declared[s].load_balancers[1]
                mappings == DictGet(entries[1], "portMappings").v
            IN  /\ Len(entries) = 1
                /\ Len(declared[s].load_balancers) = 1
                /\ binding.container_name = DictGet(entries[1], "name").v
                /\ Len(mappings) = 1
                /\ binding.container_port = DictGet(mappings[1], "containerPort").v

C9_Witness ==
    /\ Rendered
    /\ OfType("ecs.Service") # {}
    /\ HasUnderscore
    /\ cfg.backend_cfg.container_port = -1

\* ------------------------------------------------------------------------
\* C10: the spec is a join over three values: it is rendered only when the
\* image URI, the log group name and the host have all resolved, its image,
\* DB_HOST value and awslogs-group are then the resolved values, and once
\* all three have resolved the spec is eventually rendered.
\* ------------------------------------------------------------------------
AllResolved == ImageResolved /\ LogGroupResolved /\ HostResolved

\* the environment entry called name exists and has the given value
EnvHas(entry, name, value) ==
    \A env \in {DictGet(entry, "environment").v} :
        /\ \E j \in 1..Len(env) : DictGet(env[j], "name").v = name
        /\ \A j \in 1..Len(env) :
              DictGet(env[j], "name").v = name => DictGet(env[j], "value").v = value

RenderedFromResolved ==
    /\ Rendered
    /\ AllResolved
    /\ \A entry \in {Entry} :
          /\ DictGet(entry, "image").v = outputs["image_uri"].value
          /\ EnvHas(entry, "DB_HOST", outputs["host"].value)
          /\ DictGet(DictGet(DictGet(entry, "logConfiguration"), "options"),
                     "awslogs-group").v = outputs["log_group_name"].value

C10_JoinOverThree ==
    /\ [](Rendered => RenderedFromResolved)
    /\ (AllResolved ~> Rendered)

\* image URI and host resolved, log group name not: no spec
C10_Witness ==
    /\ JoinRegistered
    /\ ImageResolved
    /\ HostResolved
    /\ ~LogGroupResolved
    /\ ~Rendered

====
